---- MODULE Spec2Model ----
(***************************************************************************)
(* Model of anonimizzatore/anonymizer.py: the PresidioAnonymizer wrapper.  *)
(* The wrapper probes the installed spaCy models at construction, gates    *)
(* analyze_text by blank text and by language, and in anonymize_text       *)
(* builds the replacement table and hands it to the Presidio engines.      *)
(* The Presidio engines (AnalyzerEngine, AnonymizerEngine) are external:   *)
(* what they return is a nondeterministic choice here.                     *)
(***************************************************************************)
EXTENDS Integers, Sequences, FiniteSets, TLC

MaxLen == 2
MaxMatches == 1
MaxFailedCalls == 1

\* ---------------------------------------------------------------- values

\* Optional[str]: None, or a string
NoneV == [some |-> FALSE, v |-> ""]
Some(s) == [some |-> TRUE, v |-> s]

\* Python truthiness of an Optional[str]: None and "" are falsy
Truthy(o) == o.some /\ o.v # ""

Range(s) == {s[i] : i \in 1..Len(s)}

\* texts are sequences of characters; "\t" and " " are whitespace
Whitespace == {" ", "\t"}
Chars == {"a"} \cup Whitespace

RECURSIVE SeqsUpTo(_, _)
SeqsUpTo(S, n) ==
    IF n = 0 THEN {<<>>}
    ELSE LET shorter == SeqsUpTo(S, n - 1)
         IN  shorter \cup {Append(s, x) : s \in shorter, x \in S}

Texts == SeqsUpTo(Chars, MaxLen)

\* ---------------------------------------------------------------- module level

SPACY_MODELS ==
    << [language |-> "en", model |-> "en_core_web_sm"],
       [language |-> "it", model |-> "it_core_news_sm"] >>

AllModels == {SPACY_MODELS[i].model : i \in 1..Len(SPACY_MODELS)}

\* language codes a caller may ask for: the table's and one outside it
RequestLanguages == {"en", "it", "fr"}

VARIABLES
    installed,     \* the spaCy models importlib can find in this environment
    pc,            \* "new": not constructed, "ready": constructed, "failed": __init__ raised
    languages,     \* self._languages
    lastOp,        \* the call the caller is in: "none", "analyze", "anonymize"
    args,          \* the arguments of that call
    operators,     \* the operators anonymize_text handed to the anonymizer engine
    ret,           \* what the call returned or raised
    failed_calls   \* history: the calls on the instance that raised ValueError so far

vars == <<installed, pc, languages, lastOp, args, operators, ret, failed_calls>>

is_spacy_model_available(model_name) == model_name \in installed

\* the loop of __init__ over _SPACY_MODELS.items(): the table's first n entries
\* whose model is installed, in table order
RECURSIVE installed_entries(_)
installed_entries_unprobed(n) == SubSeq(SPACY_MODELS, 1, n)
installed_entries(n) ==
    IF n = 0 THEN <<>>
    ELSE IF is_spacy_model_available(SPACY_MODELS[n].model)
         THEN Append(installed_entries(n - 1), SPACY_MODELS[n])
         ELSE installed_entries(n - 1)

\* nlp_configuration["models"] and available_languages after the loop
nlp_models ==
    LET e == installed_entries(Len(SPACY_MODELS))
    IN  [i \in 1..Len(e) |-> [lang_code |-> e[i].language, model_name |-> e[i].model]]

available_languages ==
    LET e == installed_entries(Len(SPACY_MODELS))
    IN  [i \in 1..Len(e) |-> e[i].language]

\* ---------------------------------------------------------------- strip

RECURSIVE lstrip(_)
lstrip(s) ==
    IF s = <<>> THEN s
    ELSE IF Head(s) \in Whitespace THEN lstrip(Tail(s)) ELSE s

RECURSIVE rstrip(_)
rstrip(s) ==
    IF s = <<>> THEN s
    ELSE IF s[Len(s)] \in Whitespace THEN rstrip(SubSeq(s, 1, Len(s) - 1)) ELSE s

strip(s) == rstrip(lstrip(s))

\* `not text.strip()`
IsBlankAsEmptyOnly(text) == text = <<>>
IsBlank(text) == strip(text) = <<>>

\* `language not in self._languages`, negated
LanguageSupportedAsInTable(language, langs) ==
    language \in {SPACY_MODELS[i].language : i \in 1..Len(SPACY_MODELS)}
LanguageSupported(language, langs) == language \in Range(langs)

\* ---------------------------------------------------------------- replacement table

default_entity_replacements ==
    ( "DEFAULT"       :> "<ANONIMO>"  @@
      "PERSON"        :> "<PERSONA>"  @@
      "LOCATION"      :> "<LOCALITÀ>" @@
      "EMAIL_ADDRESS" :> "<EMAIL>"    @@
      "PHONE_NUMBER"  :> "<TELEFONO>" @@
      "DATE_TIME"     :> "<DATA>"     @@
      "IBAN_CODE"     :> "<IBAN>"     @@
      "CREDIT_CARD"   :> "<CARTA>"    @@
      "NRP"           :> "<DOCUMENTO>" )

\* Optional[Mapping[str, Optional[str]]]: None, or a mapping
NoneMap == [none |-> TRUE, map |-> <<>>]
SomeMap(m) == [none |-> FALSE, map |-> m]

\* `if entity_replacements:` None and the empty mapping are falsy
TruthyMap(er) == ~er.none /\ DOMAIN er.map # {}

\* {k: v for k, v in entity_replacements.items() if v}
NonEmptyItemsUnfiltered(m) == [k \in DOMAIN m |-> m[k].v]
NonEmptyItems(m) == [k \in {x \in DOMAIN m : Truthy(m[x])} |-> m[k].v]

\* dict.update
update(base, other) ==
    [k \in DOMAIN base \cup DOMAIN other |->
        IF k \in DOMAIN other THEN other[k] ELSE base[k]]

\* lines 105-109: the effective replacement table
replacements_table_default_first(entity_replacements, default_value) ==
    LET r1 == IF Truthy(default_value)
              THEN update(default_entity_replacements, "DEFAULT" :> default_value.v)
              ELSE default_entity_replacements
    IN  IF TruthyMap(entity_replacements)
        THEN update(r1, NonEmptyItems(entity_replacements.map))
        ELSE r1
replacements_table(entity_replacements, default_value) ==
    LET r0 == default_entity_replacements
        r1 == IF TruthyMap(entity_replacements)
              THEN update(r0, NonEmptyItems(entity_replacements.map))
              ELSE r0
    IN  IF Truthy(default_value)
        THEN update(r1, "DEFAULT" :> default_value.v)
        ELSE r1

\* lines 111-113: one replace operator per entry of the table
operators_of(replacements) ==
    [entity \in DOMAIN replacements |->
        [type |-> "replace", new_value |-> replacements[entity]]]

\* the engine's choice of operator for an entity type: the type's own operator,
\* the "DEFAULT" one when the type has none
operator_for(ops, entity_type) ==
    IF entity_type \in DOMAIN ops THEN ops[entity_type] ELSE ops["DEFAULT"]

\* ---------------------------------------------------------------- inputs

\* RecognizerResult: entity type, [start, end) and score (in hundredths)
SampleMatches ==
    { [entity_type |-> "URL",      start |-> 0, end |-> 2, score |-> 60],
      [entity_type |-> "LOCATION", start |-> 1, end |-> 2, score |-> 85] }

MatchLists == SeqsUpTo(SampleMatches, MaxMatches)

\* what the external analyzer may return for a text: matches inside the text
AnalyzerAnswers(text) ==
    {ms \in MatchLists : \A i \in 1..Len(ms) : ms[i].end <= Len(text)}

OverrideKeys == {"PERSON", "DEFAULT", "URL"}
OverrideValues == {NoneV, Some(""), Some("***")}
OverrideMaps ==
    {NoneMap} \cup
    {SomeMap(m) : m \in UNION {[K -> OverrideValues] : K \in SUBSET OverrideKeys}}
DefaultValues == {NoneV, Some(""), Some("[REDACTED]")}

EntityTypes == DOMAIN default_entity_replacements \cup {"URL"}

\* what the external anonymizer may answer: it raises, or it returns a text and
\* items (None, or a list of item dicts)
SampleItem ==
    [entity_type |-> "PERSON", start |-> 0, end |-> 3, text |-> "***",
     operator |-> "replace"]
AnonymizerAnswers(text) ==
    {[raised |-> TRUE, text |-> <<>>, none_items |-> TRUE, items |-> <<>>]} \cup
    {[raised |-> FALSE, text |-> t, none_items |-> TRUE, items |-> <<>>] :
        t \in {text, <<>>}} \cup
    {[raised |-> FALSE, text |-> t, none_items |-> FALSE, items |-> it] :
        t \in {text, <<>>}, it \in {<<>>, <<SampleItem>>}}

NoArgs ==
    [text |-> <<>>, language |-> "", recognizer_results |-> <<>>,
     entity_replacements |-> NoneMap, default_value |-> NoneV]

\* kind: "none", "matches" (analyze_text returned), "ValueError", "RuntimeError",
\* "result" (anonymize_text returned), "engine_error" (the engine raised);
\* engine: whether the call invoked a Presidio engine
NoRet ==
    [kind |-> "none", matches |-> <<>>, requested |-> "", available |-> <<>>,
     engine |-> FALSE, text |-> <<>>, items |-> <<>>]

\* ---------------------------------------------------------------- operations

Init ==
    /\ installed \in SUBSET AllModels
    /\ pc = "new"
    /\ languages = <<>>
    /\ lastOp = "none"
    /\ args = NoArgs
    /\ operators = <<>>
    /\ ret = NoRet
    /\ failed_calls = 0

\* PresidioAnonymizer.__init__, failing
ConstructFails ==
    /\ pc = "new"
    /\ nlp_models = <<>>
    /\ pc' = "failed"
    /\ ret' = [NoRet EXCEPT !.kind = "RuntimeError",
                            !.available = [i \in 1..Len(SPACY_MODELS) |->
                                              SPACY_MODELS[i].language]]
    /\ UNCHANGED <<installed, languages, lastOp, args, operators, failed_calls>>

\* PresidioAnonymizer.__init__, succeeding
Construct ==
    /\ pc = "new"
    /\ nlp_models # <<>>
    /\ pc' = "ready"
    /\ languages' = available_languages
    /\ UNCHANGED <<installed, lastOp, args, operators, ret, failed_calls>>

\* analyze_text, the blank-text return
AnalyzeBlank ==
    /\ pc = "ready"
    /\ lastOp = "none"
    /\ \E text \in Texts, language \in RequestLanguages :
        /\ IsBlank(text)
        /\ lastOp' = "analyze"
        /\ args' = [NoArgs EXCEPT !.text = text, !.language = language]
        /\ ret' = [NoRet EXCEPT !.kind = "matches"]
    /\ UNCHANGED <<installed, pc, languages, operators, failed_calls>>

\* analyze_text, the unsupported-language raise
AnalyzeInvalidLanguage ==
    /\ pc = "ready"
    /\ lastOp = "none"
    /\ failed_calls < MaxFailedCalls
    /\ \E text \in Texts, language \in RequestLanguages :
        /\ ~IsBlank(text)
        /\ ~LanguageSupported(language, languages)
        /\ lastOp' = "analyze"
        /\ args' = [NoArgs EXCEPT !.text = text, !.language = language]
        /\ ret' = [NoRet EXCEPT !.kind = "ValueError",
                                !.requested = language,
                                !.available = languages]
    /\ failed_calls' = failed_calls + 1
    /\ UNCHANGED <<installed, pc, languages, operators>>

\* analyze_text, delegating to the analyzer engine
AnalyzeDelegate ==
    /\ pc = "ready"
    /\ lastOp = "none"
    /\ \E text \in Texts, language \in RequestLanguages :
        /\ ~IsBlank(text)
        /\ LanguageSupported(language, languages)
        /\ \E answer \in AnalyzerAnswers(text) :
            /\ lastOp' = "analyze"
            /\ args' = [NoArgs EXCEPT !.text = text, !.language = language]
            /\ ret' = [NoRet EXCEPT !.kind = "matches",
                                    !.matches = answer,
                                    !.engine = TRUE]
    /\ UNCHANGED <<installed, pc, languages, operators, failed_calls>>

\* anonymize_text
AnonymizeText ==
    /\ pc = "ready"
    /\ lastOp = "none"
    /\ \E text \in Texts, recognizer_results \in MatchLists,
          entity_replacements \in OverrideMaps, default_value \in DefaultValues :
        LET replacements == replacements_table(entity_replacements, default_value)
        IN  /\ lastOp' = "anonymize"
            /\ args' = [NoArgs EXCEPT !.text = text,
                                      !.recognizer_results = recognizer_results,
                                      !.entity_replacements = entity_replacements,
                                      !.default_value = default_value]
            /\ operators' = operators_of(replacements)
            /\ \E answer \in AnonymizerAnswers(text) :
                ret' = IF answer.raised
                       THEN [NoRet EXCEPT !.kind = "engine_error", !.engine = TRUE]
                       ELSE [NoRet EXCEPT !.kind = "result",
                                          !.engine = TRUE,
                                          !.text = answer.text,
                                          !.items = IF answer.none_items
                                                    THEN <<>>
                                                    ELSE answer.items]
    /\ UNCHANGED <<installed, pc, languages, failed_calls>>

\* the caller takes the result or the exception: no call is in flight any more
\* (calls are synchronous, one at a time)
Return ==
    /\ lastOp # "none"
    /\ lastOp' = "none"
    /\ args' = NoArgs
    /\ operators' = <<>>
    /\ ret' = NoRet
    /\ UNCHANGED <<installed, pc, languages, failed_calls>>

Next ==
    \/ ConstructFails
    \/ Construct
    \/ AnalyzeBlank
    \/ AnalyzeInvalidLanguage
    \/ AnalyzeDelegate
    \/ AnonymizeText
    \/ Return

Spec == Init /\ [][Next]_vars

\* ---------------------------------------------------------------- properties

AllWhitespace(text) == \A i \in 1..Len(text) : text[i] \in Whitespace

\* the replacement table behind the operators handed to the engine
TableOf(ops) == [k \in DOMAIN ops |-> ops[k].new_value]

\* C1, as stated: analyze_text for a language that is not available raises the
\* invalid-language error whatever the text is.
C1_AsStated ==
    (lastOp = "analyze" /\ args.language \notin Range(languages))
        => ret.kind = "ValueError"

\* C1, amended: analyze_text for a language that is not available and a text
\* that is not blank raises the invalid-language error, which names the requested
\* language and lists the available ones; no match sequence is returned and the
\* analyzer engine is not invoked.
C1_UnavailableLanguageRaises ==
    (lastOp = "analyze" /\ args.language \notin Range(languages)
                        /\ ~AllWhitespace(args.text))
        => /\ ret.kind = "ValueError"
           /\ ret.requested = args.language
           /\ ret.available = languages
           /\ ret.matches = <<>>
           /\ ~ret.engine

C1_Witness ==
    /\ lastOp = "analyze"
    /\ args.language = "fr"
    /\ args.text = <<" ", "a">>
    /\ ret.kind = "ValueError"
    /\ ret.available = <<"it">>

\* C2: analyze_text on an empty or whitespace-only text returns the empty match
\* sequence for any language, available or not, without invoking the analyzer
\* engine.
C2_BlankTextReturnsEmpty ==
    (lastOp = "analyze" /\ AllWhitespace(args.text))
        => /\ ret.kind = "matches"
           /\ ret.matches = <<>>
           /\ ~ret.engine

C2_Witness ==
    /\ lastOp = "analyze"
    /\ args.text = <<" ", "\t">>
    /\ args.language = "fr"
    /\ "fr" \notin Range(languages)
    /\ ret.kind = "matches"
    /\ ret.matches = <<>>

\* the replacement C6 states for entity type T
C6_StatedReplacement(T, er, dv) ==
    IF ~er.none /\ T \in DOMAIN er.map /\ Truthy(er.map[T]) THEN er.map[T].v
    ELSE IF T \in DOMAIN default_entity_replacements
         THEN default_entity_replacements[T]
    ELSE IF Truthy(dv) THEN dv.v
    ELSE "<ANONIMO>"

\* the same with the override of the "DEFAULT" key taken into account
C6_AmendedReplacement(T, er, dv) ==
    IF T # "DEFAULT" /\ ~er.none /\ T \in DOMAIN er.map /\ Truthy(er.map[T])
    THEN er.map[T].v
    ELSE IF T # "DEFAULT" /\ T \in DOMAIN default_entity_replacements
         THEN default_entity_replacements[T]
    ELSE IF Truthy(dv) THEN dv.v
    ELSE IF ~er.none /\ "DEFAULT" \in DOMAIN er.map /\ Truthy(er.map["DEFAULT"])
         THEN er.map["DEFAULT"].v
    ELSE "<ANONIMO>"

\* C6, as stated: the replacement of entity type T is overrides[T] if non-empty,
\* else the built-in entry of T, else the caller's default if non-empty, else
\* "<ANONIMO>".
C6_AsStated ==
    lastOp = "anonymize"
        => \A T \in EntityTypes \ {"DEFAULT"} :
              operator_for(operators, T).new_value =
                  C6_StatedReplacement(T, args.entity_replacements, args.default_value)

\* C6, amended: for an entity type T other than "DEFAULT" the replacement is
\* overrides[T] if non-empty, else the built-in entry of T; for every other type,
\* and for "DEFAULT" itself, it is the caller's default if non-empty, else
\* overrides["DEFAULT"] if non-empty, else "<ANONIMO>".
C6_ReplacementPrecedence ==
    lastOp = "anonymize"
        => \A T \in EntityTypes :
              operator_for(operators, T).new_value =
                  C6_AmendedReplacement(T, args.entity_replacements, args.default_value)

C6_Witness ==
    /\ lastOp = "anonymize"
    /\ args.entity_replacements =
          SomeMap("PERSON" :> Some("***") @@ "DEFAULT" :> Some("***"))
    /\ args.default_value = Some("[REDACTED]")
    /\ \E i \in 1..Len(args.recognizer_results) :
          args.recognizer_results[i].entity_type = "LOCATION"
    /\ operator_for(operators, "LOCATION").new_value = "<LOCALITÀ>"
    /\ operator_for(operators, "PERSON").new_value = "***"
    /\ operator_for(operators, "URL").new_value = "[REDACTED]"

\* C7: an override mapping whose values are all empty or None, whatever its keys,
\* leaves the built-in table as it is: no entry erased, changed or added (the
\* "DEFAULT" entry too, unless a non-empty default value is given).
C7_EmptyOverridesKeepDefaults ==
    (lastOp = "anonymize" /\ ~args.entity_replacements.none
        /\ \A k \in DOMAIN args.entity_replacements.map :
              ~Truthy(args.entity_replacements.map[k]))
        => /\ DOMAIN TableOf(operators) = DOMAIN default_entity_replacements
           /\ \A k \in DOMAIN default_entity_replacements \ {"DEFAULT"} :
                 TableOf(operators)[k] = default_entity_replacements[k]
           /\ ~Truthy(args.default_value)
                 => TableOf(operators) = default_entity_replacements

C7_Witness ==
    /\ lastOp = "anonymize"
    /\ args.entity_replacements =
          SomeMap("PERSON" :> Some("") @@ "DEFAULT" :> NoneV @@ "URL" :> Some(""))
    /\ args.default_value = Some("")
    /\ TableOf(operators) = default_entity_replacements

\* the languages of the table whose model is installed
InstalledLanguages ==
    {SPACY_MODELS[i].language :
        i \in {j \in 1..Len(SPACY_MODELS) : SPACY_MODELS[j].model \in installed}}

TableIndex(language) ==
    CHOOSE i \in 1..Len(SPACY_MODELS) : SPACY_MODELS[i].language = language

C10_State ==
    /\ pc = "failed" => (installed = {} /\ languages = <<>> /\ lastOp = "none")
    /\ pc = "ready" =>
        /\ installed # {}
        /\ languages # <<>>
        /\ Range(languages) = InstalledLanguages
        /\ \A i, j \in 1..Len(languages) :
              i < j => TableIndex(languages[i]) < TableIndex(languages[j])
        /\ (lastOp = "analyze" /\ ~AllWhitespace(args.text)
                /\ args.language \in InstalledLanguages)
              => (ret.kind = "matches" /\ ret.engine)

C10_Step ==
    /\ pc = "new" => (pc' = "failed" <=> installed = {})
    /\ pc = "ready" => (pc' = "ready" /\ languages' = languages)

\* C10: construction fails exactly when no model of the table is installed; after
\* a successful construction the languages are non-empty, are the installed
\* languages in table order, and no call, failing or not, changes them, so a
\* valid analyze_text after a failed one is delegated to the engine as usual.
C10_LanguagesFixed == [](C10_State) /\ [][C10_Step]_vars

C10_Witness ==
    /\ pc = "ready"
    /\ failed_calls > 0
    /\ languages = <<"it">>
    /\ lastOp = "analyze"
    /\ args.language = "it"
    /\ ret.kind = "matches"
    /\ ret.engine
    /\ ret.matches # <<>>

====
